---------------------------- MODULE Spec2Model ----------------------------
(***************************************************************************)
(* Model of the scores directory: the .gen document parser                 *)
(* (src/services/gen-parser.ts), the score loader with its module-level    *)
(* cache and its queries (src/services/score-loader.ts), the resolvers and *)
(* the server bootstrap (index.ts).                                        *)
(*                                                                         *)
(* A JavaScript string is a sequence of one-character strings; split,      *)
(* join, trim, toLowerCase, includes and endsWith are computed on it.      *)
(***************************************************************************)
EXTENDS Integers, Sequences, FiniteSets, TLC

VARIABLES
    tree,          \* the directory under SCORES_DIR, as readdir/readFile see it
    scoresCache,   \* score-loader.ts: let scoresCache: Score[] | null
    pc,            \* per invocation: where its async handler stands
    op,            \* per invocation: the exported function it runs
    pos,           \* per invocation: index of the pending I/O of its scan, 0: none
    acc,           \* per invocation: the scores its scan has pushed so far
    ret,           \* per invocation: what its loadAllScores() settled with
    scansStarted,  \* number of scanDirectory(SCORES_DIR) calls started
    server,        \* index.ts: how far the module's top level has run
    content,       \* parser harness: the text handed to parseGenFile
    parsed,        \* parser harness: what parseGenFile returned
    body,          \* round trip: the notation body B
    meta,          \* round trip: the metadata mapping M, as ordered entries
    stage,         \* harnesses: "input" before the call, "done" after it
    query,         \* query harness: the last query and its arguments
    answer         \* query harness: what the query returned

loaderVars == <<tree, scoresCache, pc, op, pos, acc, ret, scansStarted, server>>
parserVars == <<content, parsed, body, meta, stage>>
queryVars  == <<query, answer>>
vars == <<tree, scoresCache, pc, op, pos, acc, ret, scansStarted, server,
          content, parsed, body, meta, stage, query, answer>>

-----------------------------------------------------------------------------
(* Strings *)

\* The characters in use, in UTF-16 code unit order.
Alphabet ==
    <<"\n", " ", "\"", "-", ".", "/", "0", "1", "2", "3", "4", "5", "6",
      "7", "8", "9", ":", "A", "B", "C", "D", "E", "F", "G", "H", "I", "J",
      "K", "L", "M", "N", "O", "P", "Q", "R", "S", "T", "U", "V", "W", "X",
      "Y", "Z", "a", "b", "c", "d", "e", "f", "g", "h", "i", "j", "k", "l",
      "m", "n", "o", "p", "q", "r", "s", "t", "u", "v", "w", "x", "y", "z",
      "{", "}">>

Code(c) == CHOOSE i \in 1..Len(Alphabet) : Alphabet[i] = c

IsWhitespace(c) == c \in {" ", "\n", "\t", "\r"}

Lowers ==
    <<"a", "b", "c", "d", "e", "f", "g", "h", "i", "j", "k", "l", "m", "n",
      "o", "p", "q", "r", "s", "t", "u", "v", "w", "x", "y", "z">>

Uppers ==
    <<"A", "B", "C", "D", "E", "F", "G", "H", "I", "J", "K", "L", "M", "N",
      "O", "P", "Q", "R", "S", "T", "U", "V", "W", "X", "Y", "Z">>

\* [a-z]
IsLower(c) == \E i \in 1..Len(Lowers) : Lowers[i] = c

\* [0-9]
IsDigit(c) == c \in {"0", "1", "2", "3", "4", "5", "6", "7", "8", "9"}

LowerChar(c) ==
    IF \E i \in 1..Len(Uppers) : Uppers[i] = c
    THEN Lowers[CHOOSE i \in 1..Len(Uppers) : Uppers[i] = c]
    ELSE c

UpperChar(c) ==
    IF \E i \in 1..Len(Lowers) : Lowers[i] = c
    THEN Uppers[CHOOSE i \in 1..Len(Lowers) : Lowers[i] = c]
    ELSE c

toLowerCase(s) == [i \in 1..Len(s) |-> LowerChar(s[i])]

\* String.prototype.trim
trim(s) ==
    LET keep == {i \in 1..Len(s) : ~IsWhitespace(s[i])}
    IN  IF keep = {} THEN <<>>
        ELSE LET lo == CHOOSE i \in keep : \A j \in keep : i <= j
                 hi == CHOOSE i \in keep : \A j \in keep : j <= i
             IN  SubSeq(s, lo, hi)

\* String.prototype.split(sep) for a one-character separator
RECURSIVE split(_, _)
split(s, sep) ==
    LET at == {i \in 1..Len(s) : s[i] = sep}
    IN  IF at = {} THEN <<s>>
        ELSE LET i == CHOOSE k \in at : \A j \in at : k <= j
             IN  <<SubSeq(s, 1, i - 1)>> \o split(SubSeq(s, i + 1, Len(s)), sep)

\* Array.prototype.join(sep)
RECURSIVE join(_, _)
join(parts, sep) ==
    IF Len(parts) = 0 THEN <<>>
    ELSE IF Len(parts) = 1 THEN parts[1]
    ELSE parts[1] \o sep \o join(Tail(parts), sep)

\* Array.prototype.slice(from, to) with 0-based bounds, to exclusive
slice(a, from, to) == SubSeq(a, from + 1, IF to < 0 THEN Len(a) + to ELSE to)

includes(hay, needle) ==
    \E i \in 0..(Len(hay) - Len(needle)) : SubSeq(hay, i + 1, i + Len(needle)) = needle

endsWith(s, suffix) ==
    /\ Len(suffix) <= Len(s)
    /\ SubSeq(s, Len(s) - Len(suffix) + 1, Len(s)) = suffix

\* s < t in code unit order, the order of Array.prototype.sort() without a comparator
StrLess(s, t) ==
    \E i \in 1..(Len(t)) :
        /\ i <= Len(s) + 1
        /\ \A j \in 1..(i - 1) : s[j] = t[j]
        /\ \/ i = Len(s) + 1
           \/ Code(s[i]) < Code(t[i])

NL == <<"\n">>
Marker == <<"-", "-", "-">>

-----------------------------------------------------------------------------
(* The structured-text decoder: YAML.parse of the yaml package, on the       *)
(* documents the model feeds it: a block mapping at indentation 0, one       *)
(* "key: value" per line with plain or double-quoted scalars, the flow       *)
(* mapping {}, a single plain scalar, or nothing but blank lines.            *)

\* A decoded scalar: t is "str", "num", "bool" or "null".
StrVal(s)  == [t |-> "str",  s |-> s,    n |-> 0]
NumVal(n)  == [t |-> "num",  s |-> <<>>, n |-> n]
BoolVal(b) == [t |-> "bool", s |-> <<>>, n |-> IF b THEN 1 ELSE 0]
NullVal    == [t |-> "null", s |-> <<>>, n |-> 0]

DigitValue(c) ==
    CASE c = "0" -> 0 [] c = "1" -> 1 [] c = "2" -> 2 [] c = "3" -> 3 [] c = "4" -> 4
      [] c = "5" -> 5 [] c = "6" -> 6 [] c = "7" -> 7 [] c = "8" -> 8 [] c = "9" -> 9

DigitChar(d) == <<"0", "1", "2", "3", "4", "5", "6", "7", "8", "9">>[d + 1]

RECURSIVE ParseInt(_)
ParseInt(s) ==
    IF Len(s) = 0 THEN 0
    ELSE 10 * ParseInt(SubSeq(s, 1, Len(s) - 1)) + DigitValue(s[Len(s)])

\* Number.prototype.toString of a non-negative integer
RECURSIVE NumberToString(_)
NumberToString(n) ==
    IF n < 10 THEN <<DigitChar(n)>>
    ELSE NumberToString(n \div 10) \o <<DigitChar(n % 10)>>

\* The core schema's resolution of one scalar token.
YAMLScalar(tok) ==
    IF tok = <<>> \/ tok = <<"n", "u", "l", "l">> THEN NullVal
    ELSE IF tok = <<"t", "r", "u", "e">> THEN BoolVal(TRUE)
    ELSE IF tok = <<"f", "a", "l", "s", "e">> THEN BoolVal(FALSE)
    ELSE IF \A i \in 1..Len(tok) : IsDigit(tok[i]) THEN NumVal(ParseInt(tok))
    ELSE IF Len(tok) >= 2 /\ tok[1] = "\"" /\ tok[Len(tok)] = "\""
         THEN StrVal(SubSeq(tok, 2, Len(tok) - 1))
    ELSE StrVal(tok)

\* The position of the ":" that ends a line's key (a colon followed by a space
\* or ending the line), 0 when the line has none.
KeyColon(line) ==
    LET at == {i \in 1..Len(line) :
                   line[i] = ":" /\ (i = Len(line) \/ line[i + 1] = " ")}
    IN  IF at = {} THEN 0 ELSE CHOOSE i \in at : \A j \in at : i <= j

IsMappingLine(line) ==
    /\ Len(line) > 0
    /\ ~IsWhitespace(line[1])
    /\ line[1] # "\""
    /\ KeyColon(line) > 1

EntryOf(line) ==
    <<trim(SubSeq(line, 1, KeyColon(line) - 1)),
      YAMLScalar(trim(SubSeq(line, KeyColon(line) + 1, Len(line))))>>

\* YAML.parse(raw): [kind |-> "map", entries |-> <<key, value>> pairs in document
\* order], [kind |-> "null"], [kind |-> "scalar"] or, when it throws, "error".
YAMLParse(raw) ==
    LET all  == split(raw, "\n")
        idx  == {i \in 1..Len(all) : trim(all[i]) # <<>>}
        n    == Cardinality(idx)
        \* the non-blank lines, in order
        nth(k) == CHOOSE i \in idx : Cardinality({j \in idx : j < i}) = k - 1
        doc  == [k \in 1..n |-> all[nth(k)]]
    IN  IF n = 0 THEN [kind |-> "null", entries |-> <<>>]
        ELSE IF n = 1 /\ trim(doc[1]) = <<"{", "}">>
             THEN [kind |-> "map", entries |-> <<>>]
        ELSE IF \A k \in 1..n : IsMappingLine(doc[k])
             THEN LET es == [k \in 1..n |-> EntryOf(doc[k])]
                  IN  IF \E a, b \in 1..n : a # b /\ es[a][1] = es[b][1]
                      THEN [kind |-> "error", entries |-> <<>>]  \* Map keys must be unique
                      ELSE [kind |-> "map", entries |-> es]
        ELSE IF n = 1 /\ ~IsWhitespace(doc[1][1])
             THEN [kind |-> "scalar", entries |-> <<>>]
        ELSE [kind |-> "error", entries |-> <<>>]

-----------------------------------------------------------------------------
(* gen-parser.ts *)

\* {} : no keys
EmptyMetadata == [k \in {} |-> <<>>]

\* String(value)
String(v) ==
    CASE v.t = "str"  -> v.s
      [] v.t = "num"  -> NumberToString(v.n)
      [] v.t = "bool" -> IF v.n = 1 THEN <<"t", "r", "u", "e">>
                                    ELSE <<"f", "a", "l", "s", "e">>
      [] v.t = "null" -> <<"n", "u", "l", "l">>

\* camelKey that drops the hyphen and keeps the letter as it is.
RECURSIVE camelKey_NoUpper(_)
camelKey_NoUpper(key) ==
    IF Len(key) = 0 THEN <<>>
    ELSE IF Len(key) >= 2 /\ key[1] = "-" /\ IsLower(key[2])
         THEN <<key[2]>> \o camelKey_NoUpper(SubSeq(key, 3, Len(key)))
    ELSE <<key[1]>> \o camelKey_NoUpper(Tail(key))

\* key.replace(/-([a-z])/g, (_, letter) => letter.toUpperCase())
RECURSIVE camelKey(_)
camelKey(key) ==
    IF Len(key) = 0 THEN <<>>
    ELSE IF Len(key) >= 2 /\ key[1] = "-" /\ IsLower(key[2])
         THEN <<UpperChar(key[2])>> \o camelKey(SubSeq(key, 3, Len(key)))
    ELSE <<key[1]>> \o camelKey(Tail(key))

\* result[k] = v
SetKey(result, k, v) ==
    [x \in (DOMAIN result) \cup {k} |-> IF x = k THEN v ELSE result[x]]

\* normalizeMetadataKeys: the loop over Object.entries(obj), in order
RECURSIVE normalizeFrom(_, _)
normalizeFrom(entries, result) ==
    IF Len(entries) = 0 THEN result
    ELSE normalizeFrom(Tail(entries),
                       SetKey(result, camelKey(entries[1][1]), String(entries[1][2])))

normalizeMetadataKeys(entries) == normalizeFrom(entries, EmptyMetadata)

\* scanMarkers without the break: the scan goes on to the first marker line.
RECURSIVE scanMarkers_NoBreak(_, _, _)
scanMarkers_NoBreak(lines, i, endIndex) ==
    IF i < 0 THEN [metadataStartIndex |-> -1, metadataEndIndex |-> endIndex]
    ELSE IF trim(lines[i + 1]) = Marker
         THEN IF endIndex = -1
              THEN scanMarkers_NoBreak(lines, i - 1, i)
              ELSE LET rest == scanMarkers_NoBreak(lines, i - 1, endIndex)
                   IN  IF rest.metadataStartIndex = -1
                       THEN [metadataStartIndex |-> i, metadataEndIndex |-> endIndex]
                       ELSE rest
    ELSE scanMarkers_NoBreak(lines, i - 1, endIndex)

\* The backward scan for the --- markers (0-based indexes, -1: not found):
\* the state of the loop about to look at line i with metadataEndIndex = endIndex.
RECURSIVE scanMarkers(_, _, _)
scanMarkers(lines, i, endIndex) ==
    IF i < 0 THEN [metadataStartIndex |-> -1, metadataEndIndex |-> endIndex]
    ELSE IF trim(lines[i + 1]) = Marker
         THEN IF endIndex = -1
              THEN scanMarkers(lines, i - 1, i)
              ELSE [metadataStartIndex |-> i, metadataEndIndex |-> endIndex]
    ELSE scanMarkers(lines, i - 1, endIndex)

\* The metadata of a sliced block: {} unless YAML.parse gives an object.
decodeMetadata(rawMetadata) ==
    LET yaml == YAMLParse(rawMetadata)
    IN  IF yaml.kind = "map" THEN normalizeMetadataKeys(yaml.entries)
        ELSE EmptyMetadata

\* parseGenFile without the "=== -1" tests of its guard.
parseGenFile_NoGuard(text) ==
    LET lines == split(text, "\n")
        m     == scanMarkers(lines, Len(lines) - 1, -1)
    IN  IF m.metadataStartIndex >= m.metadataEndIndex
        THEN [notation |-> trim(text), metadata |-> EmptyMetadata]
        ELSE [notation |-> trim(join(slice(lines, 0, m.metadataStartIndex), NL)),
              metadata |-> decodeMetadata(
                  join(slice(lines, m.metadataStartIndex + 1, m.metadataEndIndex), NL))]

parseGenFile(text) ==
    LET lines == split(text, "\n")
        m     == scanMarkers(lines, Len(lines) - 1, -1)
    IN  IF \/ m.metadataStartIndex = -1
           \/ m.metadataEndIndex = -1
           \/ m.metadataStartIndex >= m.metadataEndIndex
        THEN [notation |-> trim(text), metadata |-> EmptyMetadata]
        ELSE [notation |-> trim(join(slice(lines, 0, m.metadataStartIndex), NL)),
              metadata |-> decodeMetadata(
                  join(slice(lines, m.metadataStartIndex + 1, m.metadataEndIndex), NL))]

-----------------------------------------------------------------------------
(* Bounds and inputs of the parser checks *)

MaxLines == 4
MaxBodyLines == 2
MaxEntries == 2

SeqsUpTo(S, n) == UNION {[1..k -> S] : k \in 1..n}

\* The lines the texts are made of: blank, a marker, a marker in whitespace,
\* a near-marker, a notation line, a "key: value" line.
ParseLines ==
    { <<>>, Marker, <<" ", "-", "-", "-", " ">>, <<"-", "-">>, <<"a">>,
      <<"k", ":", " ", "v">> }

ParseInputs == {join(ls, NL) : ls \in SeqsUpTo(ParseLines, MaxLines)}

BodyLines == { <<>>, Marker, <<" ", "a", " ">> }

Bodies == {<<>>} \cup {join(ls, NL) : ls \in SeqsUpTo(BodyLines, MaxBodyLines)}

MetaKeys ==
    { <<"t", "i", "t", "l", "e">>,
      <<"t", "i", "m", "e", "-", "s", "i", "g">>,
      <<"t", "i", "m", "e", "S", "i", "g">> }

MetaValues ==
    { StrVal(<<"B", "a", "c", "h">>), StrVal(<<"1", "2">>), NumVal(120), BoolVal(TRUE) }

\* The mappings M, as their entries in insertion order: no key twice.
Metas ==
    {<<>>} \cup
    { m \in SeqsUpTo(MetaKeys \X MetaValues, MaxEntries) :
        \A a, b \in 1..Len(m) : a # b => m[a][1] # m[b][1] }

\* encode(M): YAML.stringify of a flat mapping of scalars: one "key: value" line
\* per entry, a string quoted when a plain scalar would resolve to something else,
\* {} for no entries; the document ends with a newline.
EncodeScalar(v) ==
    IF v.t = "str"
    THEN IF YAMLScalar(v.s) = v THEN v.s ELSE <<"\"">> \o v.s \o <<"\"">>
    ELSE String(v)

RECURSIVE EncodeEntries(_)
EncodeEntries(m) ==
    IF Len(m) = 0 THEN <<>>
    ELSE m[1][1] \o <<":", " ">> \o EncodeScalar(m[1][2]) \o NL \o EncodeEntries(Tail(m))

Encode(m) == IF Len(m) = 0 THEN <<"{", "}">> \o NL ELSE EncodeEntries(m)

\* B + "\n---\n" + encode(M) + "\n---\n"
Serialize(b, m) == b \o NL \o Marker \o NL \o Encode(m) \o NL \o Marker \o NL

NoResult == [notation |-> <<>>, metadata |-> EmptyMetadata]

-----------------------------------------------------------------------------
(* Values of the variables a specification does not use *)

LoaderUnused ==
    /\ tree = <<>> /\ scoresCache = <<>> /\ pc = <<>> /\ op = <<>> /\ pos = <<>>
    /\ acc = <<>> /\ ret = <<>> /\ scansStarted = 0 /\ server = "unused"

QueryUnused == query = <<>> /\ answer = <<>>

-----------------------------------------------------------------------------
(* SpecParser: parseGenFile applied to a text *)

InitParser ==
    /\ content \in ParseInputs
    /\ parsed = NoResult
    /\ body = <<>> /\ meta = <<>>
    /\ stage = "input"
    /\ LoaderUnused /\ QueryUnused

Parse ==
    /\ stage = "input"
    /\ parsed' = parseGenFile(content)
    /\ stage' = "done"
    /\ UNCHANGED <<content, body, meta>>
    /\ UNCHANGED loaderVars /\ UNCHANGED queryVars

NextParser == Parse

SpecParser == InitParser /\ [][NextParser]_vars

-----------------------------------------------------------------------------
(* SpecRoundTrip: a body and a mapping serialized, then parsed *)

InitRoundTrip ==
    /\ body \in Bodies
    /\ meta \in Metas
    /\ content = <<>>
    /\ parsed = NoResult
    /\ stage = "input"
    /\ LoaderUnused /\ QueryUnused

RoundTrip ==
    /\ stage = "input"
    /\ content' = Serialize(body, meta)
    /\ parsed' = parseGenFile(content')
    /\ stage' = "done"
    /\ UNCHANGED <<body, meta>>
    /\ UNCHANGED loaderVars /\ UNCHANGED queryVars

NextRoundTrip == RoundTrip

SpecRoundTrip == InitRoundTrip /\ [][NextRoundTrip]_vars

-----------------------------------------------------------------------------
(* Claims about the parser *)

LinesOf(text) == split(text, "\n")

\* The 1-based indexes of the lines whose trimmed content is exactly ---
MarkerLines(text) == {i \in 1..Len(LinesOf(text)) : trim(LinesOf(text)[i]) = Marker}

MaxOf(S) == CHOOSE i \in S : \A j \in S : j <= i

\* C4: a text with zero or one marker line parses to metadata {} and notation
\* equal to the whole text trimmed; the one marker line, if any, stays in notation.
C4_FewMarkersNoMetadata ==
    (stage = "done" /\ Cardinality(MarkerLines(content)) < 2) =>
        /\ parsed.metadata = EmptyMetadata
        /\ parsed.notation = trim(content)
        /\ Cardinality(MarkerLines(content)) = 1 => includes(parsed.notation, Marker)

C4_Witness ==
    /\ stage = "done"
    /\ Cardinality(MarkerLines(content)) = 1
    /\ \E i \in 1..Len(LinesOf(content)) : LinesOf(content)[i] = <<"k", ":", " ", "v">>
    /\ Len(parsed.notation) > Len(Marker)

\* C5: with two or more marker lines, end is the last one and start the nearest
\* one before it; notation is the lines strictly before start, joined and trimmed
\* (so any earlier marker line stays in it), and the metadata is decoded from the
\* lines strictly between start and end only.
C5_BlockIsLastMarkerPair ==
    (stage = "done" /\ Cardinality(MarkerLines(content)) >= 2) =>
        LET lines == LinesOf(content)
            end   == MaxOf(MarkerLines(content))
            start == MaxOf({i \in MarkerLines(content) : i < end})
        IN  /\ parsed.notation = trim(join(SubSeq(lines, 1, start - 1), NL))
            /\ parsed.metadata = decodeMetadata(join(SubSeq(lines, start + 1, end - 1), NL))
            /\ Cardinality(MarkerLines(content)) >= 3 => includes(parsed.notation, Marker)
            /\ \A i \in start..Len(lines) :
                   trim(lines[i]) # <<>> /\ trim(lines[i]) # Marker
                       => \/ ~includes(parsed.notation, lines[i])
                          \/ \E j \in 1..(start - 1) : includes(lines[j], lines[i])

C5_Witness ==
    /\ stage = "done"
    /\ Cardinality(MarkerLines(content)) >= 3
    /\ parsed.metadata # EmptyMetadata
    /\ includes(parsed.notation, Marker)

\* The expected form of a key and of a value after the round trip.
ExpectedKey(key) ==
    IF key = <<"t", "i", "m", "e", "-", "s", "i", "g">>
    THEN <<"t", "i", "m", "e", "S", "i", "g">>
    ELSE key

ExpectedValue(v) ==
    CASE v = NumVal(120)   -> <<"1", "2", "0">>
      [] v = BoolVal(TRUE) -> <<"t", "r", "u", "e">>
      [] OTHER             -> v.s

LastSameKey(i) ==
    MaxOf({j \in 1..Len(meta) : ExpectedKey(meta[j][1]) = ExpectedKey(meta[i][1])})

-----------------------------------------------------------------------------
(* score-loader.ts: the directory, the scan and the cache *)

\* A Dirent with what readdir/readFile give for it.
File(name, text) == [name |-> name, isDirectory |-> FALSE, entries |-> <<>>, content |-> text]
Dir(name, entries) == [name |-> name, isDirectory |-> TRUE, entries |-> entries, content |-> <<>>]

\* An optional string (title?: string): <<>> is undefined, <<s>> is the string s.
Undefined == <<>>
Some(s) == <<s>>

\* metadata.title and the like
Lookup(metadata, key) == IF key \in DOMAIN metadata THEN Some(metadata[key]) ELSE Undefined

\* basePath ? `${basePath}/${entry.name}` : entry.name
RelativePath_NoBase(basePath, name) == name

RelativePath(basePath, name) ==
    IF basePath # <<>> THEN basePath \o <<"/">> \o name ELSE name

\* The object literal of scores.push: the Score of a .gen file, from the parts
\* of its relative path and what parseGenFile gave for its content.
Score(relativePath, name, text, pathParts, p) ==
    [ path          |-> relativePath,
      filename      |-> name,
      category      |-> pathParts[1],
      fullCategory  |-> join(slice(pathParts, 0, -1), <<"/">>),
      content       |-> text,
      notation      |-> p.notation,
      metadata      |-> p.metadata,
      title         |-> Lookup(p.metadata, <<"t", "i", "t", "l", "e">>),
      composer      |-> Lookup(p.metadata, <<"c", "o", "m", "p", "o", "s", "e", "r">>),
      timeSignature |-> Lookup(p.metadata, <<"t", "i", "m", "e", "S", "i", "g", "n", "a", "t", "u", "r", "e">>),
      tempo         |-> Lookup(p.metadata, <<"t", "e", "m", "p", "o">>),
      keySignature  |-> Lookup(p.metadata, <<"k", "e", "y", "S", "i", "g", "n", "a", "t", "u", "r", "e">>) ]

\* The Score pushed for a .gen file.
MakeScore(relativePath, name, text) ==
    Score(relativePath, name, text, split(relativePath, "/"), parseGenFile(text))

\* scanDirectory(dir, basePath) when every readdir and readFile succeeds:
\* the scores of the entries, in readdir order, a directory's in its place.
RECURSIVE scanDirectory(_, _)
scanDirectory(entries, basePath) ==
    IF Len(entries) = 0 THEN <<>>
    ELSE LET entry        == entries[1]
             relativePath == RelativePath(basePath, entry.name)
             scores       ==
                 IF entry.isDirectory
                 THEN scanDirectory(entry.entries, relativePath)
                 ELSE IF endsWith(entry.name, <<".", "g", "e", "n">>)
                      THEN <<MakeScore(relativePath, entry.name, entry.content)>>
                      ELSE <<>>
         IN  scores \o scanDirectory(Tail(entries), basePath)

\* The awaited I/O of scanDirectory(dir, basePath), in the order it is issued:
\* the readdir of the directory, then per entry the scan of a subdirectory or the
\* readFile of a .gen file.
RECURSIVE EntrySteps(_, _)
EntrySteps(entries, basePath) ==
    IF Len(entries) = 0 THEN <<>>
    ELSE LET entry        == entries[1]
             relativePath == RelativePath(basePath, entry.name)
             steps        ==
                 IF entry.isDirectory
                 THEN <<[io |-> "readdir", path |-> relativePath, entry |-> entry]>>
                          \o EntrySteps(entry.entries, relativePath)
                 ELSE IF endsWith(entry.name, <<".", "g", "e", "n">>)
                      THEN <<[io |-> "readFile", path |-> relativePath, entry |-> entry]>>
                      ELSE <<>>
         IN  steps \o EntrySteps(Tail(entries), basePath)

ScanSteps(root) ==
    <<[io |-> "readdir", path |-> <<>>, entry |-> Dir(<<>>, root)]>> \o EntrySteps(root, <<>>)

\* scoresCache: null, or the array.
Null == <<>>
Loaded(scores) == <<scores>>
IsNull(cache) == Len(cache) = 0

\* What a loadAllScores() promise settled with.
Pending == [status |-> "pending", scores |-> <<>>]
Fulfilled(scores) == [status |-> "fulfilled", scores |-> scores]
Rejected == [status |-> "rejected", scores |-> <<>>]

-----------------------------------------------------------------------------
(* Bounds and inputs of the loader *)

\* Invocations of the exported functions besides the one of index.ts.
NumCalls == 2

Main == 0
Requests == 1..NumCalls
Invocations == {Main} \cup Requests

\* The exported functions; each begins with await loadAllScores().
Ops ==
    { "loadAllScores", "getScoreByPath", "filterScores", "getAllCategories",
      "getAllComposers", "searchByTitle", "searchByComposer" }

TextX == <<"C", " ", "D", "\n", "-", "-", "-", "\n", "t", "i", "t", "l", "e", ":", " ", "A", "i", "r", "\n", "-", "-", "-", "\n">>
TextY == <<"E", " ", "F">>

LoaderTrees ==
    { <<File(<<"y", ".", "g", "e", "n">>, TextY)>>,
      <<Dir(<<"d">>, <<File(<<"x", ".", "g", "e", "n">>, TextX)>>), File(<<"y", ".", "g", "e", "n">>, TextY), File(<<"n", ".", "t", "x", "t">>, <<"n", "o">>)>>,
      <<>> }

-----------------------------------------------------------------------------
(* The loader's actions. An invocation c of an exported function runs          *)
(* loadAllScores up to its first await, then one step per settled I/O.         *)

\* Admits when index.ts does not await its load: Bun.serve runs at once.
Admits_NoAwait(c) ==
    IF c = Main THEN server = "starting" ELSE server \in {"module", "serving", "loading"}

\* Who may call: index.ts makes its call once while starting; a resolver is called only
\* once Bun.serve has run; with no bootstrap ("module") any caller may run at any time.
Admits(c) ==
    IF c = Main THEN server = "starting" ELSE server \in {"module", "serving"}

\* loadAllScores(), from its first line to its first await (or its return).
Call(c, o) ==
    /\ pc[c] = "idle"
    /\ Admits(c)
    /\ op' = [op EXCEPT ![c] = o]
    /\ IF ~IsNull(scoresCache)
       THEN /\ pc' = [pc EXCEPT ![c] = "returned"]
            /\ ret' = [ret EXCEPT ![c] = Fulfilled(scoresCache[1])]
            /\ UNCHANGED <<pos, acc, scansStarted>>
       ELSE /\ pc' = [pc EXCEPT ![c] = "scanning"]
            /\ pos' = [pos EXCEPT ![c] = 1]
            /\ acc' = [acc EXCEPT ![c] = <<>>]
            /\ scansStarted' = scansStarted + 1
            /\ UNCHANGED ret
    /\ server' = IF c = Main THEN "loading" ELSE server
    /\ UNCHANGED <<tree, scoresCache>>
    /\ UNCHANGED parserVars /\ UNCHANGED queryVars

\* The pending readdir or readFile of c's scan succeeds: a file's score is pushed,
\* and the scan goes on to its next I/O or returns.
ReadOk(c) ==
    /\ pc[c] = "scanning"
    /\ LET steps == ScanSteps(tree)
           step  == steps[pos[c]]
       IN  /\ acc' = [acc EXCEPT ![c] =
                        IF step.io = "readFile"
                        THEN Append(@, MakeScore(step.path, step.entry.name, step.entry.content))
                        ELSE @]
           /\ pos' = [pos EXCEPT ![c] = @ + 1]
           /\ pc' = [pc EXCEPT ![c] = IF pos[c] = Len(steps) THEN "resolved" ELSE "scanning"]
    /\ UNCHANGED <<tree, scoresCache, op, ret, scansStarted, server>>
    /\ UNCHANGED parserVars /\ UNCHANGED queryVars

\* CacheAfterFailure of a loader that keeps what the scan had read.
CacheAfterFailure_Partial(cache, partial) == Loaded(partial)

\* What loadAllScores does when the scan rejects: nothing; the rejection
\* passes through its await to the caller.
CacheAfterFailure(cache, partial) == cache

\* The pending readdir or readFile fails: scanDirectory rejects, and so does
\* loadAllScores, before its assignment to scoresCache.
ReadFail(c) ==
    /\ pc[c] = "scanning"
    /\ pc' = [pc EXCEPT ![c] = "returned"]
    /\ ret' = [ret EXCEPT ![c] = Rejected]
    /\ scoresCache' = CacheAfterFailure(scoresCache, acc[c])
    /\ acc' = [acc EXCEPT ![c] = <<>>]
    /\ pos' = [pos EXCEPT ![c] = 0]
    /\ UNCHANGED <<tree, op, scansStarted, server>>
    /\ UNCHANGED parserVars /\ UNCHANGED queryVars

\* scoresCache = await scanDirectory(SCORES_DIR); return scoresCache
Publish(c) ==
    /\ pc[c] = "resolved"
    /\ scoresCache' = Loaded(acc[c])
    /\ ret' = [ret EXCEPT ![c] = Fulfilled(acc[c])]
    /\ pc' = [pc EXCEPT ![c] = "returned"]
    /\ acc' = [acc EXCEPT ![c] = <<>>]
    /\ pos' = [pos EXCEPT ![c] = 0]
    /\ UNCHANGED <<tree, op, scansStarted, server>>
    /\ UNCHANGED parserVars /\ UNCHANGED queryVars

ParserUnused ==
    /\ content = <<>> /\ parsed = NoResult /\ body = <<>> /\ meta = <<>> /\ stage = "unused"

InitLoader ==
    /\ tree \in LoaderTrees
    /\ scoresCache = Null
    /\ pc = [c \in Invocations |-> "idle"]
    /\ op = [c \in Invocations |-> "none"]
    /\ pos = [c \in Invocations |-> 0]
    /\ acc = [c \in Invocations |-> <<>>]
    /\ ret = [c \in Invocations |-> Pending]
    /\ scansStarted = 0
    /\ ParserUnused /\ QueryUnused

\* Spec: the score-loader module used directly, with no bootstrap before the callers.
Init == InitLoader /\ server = "module"

Next ==
    \E c \in Requests :
        \/ \E o \in Ops : Call(c, o)
        \/ ReadOk(c)
        \/ ReadFail(c)
        \/ Publish(c)

Spec == Init /\ [][Next]_vars

-----------------------------------------------------------------------------
(* score-loader.ts: the queries *)

\* if (x): a string that is present and not empty
Truthy(x) == x # Undefined /\ x[1] # <<>>

\* score.title?.toLowerCase().includes(q)
FieldIncludes(field, q) ==
    field # Undefined /\ includes(toLowerCase(field[1]), q)

\* The category test of a filter that looks at category alone.
CategoryMatches_CategoryOnly(score, filterCat) ==
    toLowerCase(score.category) = filterCat

\* score.category.toLowerCase() === filterCat || score.fullCategory.toLowerCase() === filterCat
CategoryMatches(score, filterCat) ==
    \/ toLowerCase(score.category) = filterCat
    \/ toLowerCase(score.fullCategory) = filterCat

\* The callback of scores.filter: each "return false" in its order, else true.
Passes(score, filter) ==
    IF Truthy(filter.title) /\ ~FieldIncludes(score.title, toLowerCase(filter.title[1]))
    THEN FALSE
    ELSE IF Truthy(filter.composer)
            /\ ~FieldIncludes(score.composer, toLowerCase(filter.composer[1]))
    THEN FALSE
    ELSE IF Truthy(filter.category)
            /\ ~CategoryMatches(score, toLowerCase(filter.category[1]))
    THEN FALSE
    ELSE IF Truthy(filter.timeSignature) /\ score.timeSignature # filter.timeSignature
    THEN FALSE
    ELSE IF Truthy(filter.tempo) /\ score.tempo # filter.tempo
    THEN FALSE
    ELSE IF Truthy(filter.keySignature) /\ score.keySignature # filter.keySignature
    THEN FALSE
    ELSE TRUE

\* filterScores(filter?) on the loaded scores; filter is <<>> when not given.
filterScores(scores, filter) ==
    IF filter = <<>> THEN scores
    ELSE SelectSeq(scores, LAMBDA score : Passes(score, filter[1]))

\* getScoreByPath: scores.find(...) || null
getScoreByPath(scores, path) ==
    LET hits == {i \in 1..Len(scores) : scores[i].path = path}
    IN  IF hits = {} THEN <<>>
        ELSE <<scores[CHOOSE i \in hits : \A j \in hits : i <= j]>>

\* Set.prototype.add, the Set kept in insertion order
SetAdd(set, x) == IF \E i \in 1..Len(set) : set[i] = x THEN set ELSE Append(set, x)

\* Array.prototype.sort() with no comparator: ascending by code units
RECURSIVE SortedInsert(_, _)
SortedInsert(sorted, x) ==
    IF Len(sorted) = 0 THEN <<x>>
    ELSE IF StrLess(x, sorted[1]) THEN <<x>> \o sorted
    ELSE <<sorted[1]>> \o SortedInsert(Tail(sorted), x)

RECURSIVE sort(_)
sort(a) == IF Len(a) = 0 THEN <<>> ELSE SortedInsert(sort(SubSeq(a, 1, Len(a) - 1)), a[Len(a)])

\* The loop of getAllCategories over the scores.
RECURSIVE collectCategories(_, _)
collectCategories(scores, categories) ==
    IF Len(scores) = 0 THEN categories
    ELSE LET score == scores[1]
             first == SetAdd(categories, score.category)
             both  == IF score.fullCategory # <<>> /\ score.fullCategory # score.category
                      THEN SetAdd(first, score.fullCategory)
                      ELSE first
         IN  collectCategories(Tail(scores), both)

\* getAllCategories without the sort: the Set's insertion order.
getAllCategories_Unsorted(scores) == collectCategories(scores, <<>>)

getAllCategories(scores) == sort(collectCategories(scores, <<>>))

\* The loop of getAllComposers over the scores.
RECURSIVE collectComposers(_, _)
collectComposers(scores, composers) ==
    IF Len(scores) = 0 THEN composers
    ELSE collectComposers(Tail(scores),
                          IF Truthy(scores[1].composer)
                          THEN SetAdd(composers, scores[1].composer[1])
                          ELSE composers)

getAllComposers(scores) == sort(collectComposers(scores, <<>>))

searchByTitle(scores, q) ==
    SelectSeq(scores, LAMBDA score : FieldIncludes(score.title, toLowerCase(q)))

searchByComposer(scores, q) ==
    SelectSeq(scores, LAMBDA score : FieldIncludes(score.composer, toLowerCase(q)))

-----------------------------------------------------------------------------
(* Inputs of the query checks *)

TextAir  == <<"C", " ", "D", "\n", "-", "-", "-", "\n", "t", "i", "t", "l", "e", ":", " ", "A", "i", "r", "\n", "c", "o", "m", "p", "o", "s", "e", "r", ":", " ", "J", " ", "B", "a", "c", "h", "\n", "t", "i", "m", "e", "-", "s", "i", "g", "n", "a", "t", "u", "r", "e", ":", " ", "4", "/", "4", "\n", "t", "e", "m", "p", "o", ":", " ", "1", "2", "0", "\n", "k", "e", "y", "-", "s", "i", "g", "n", "a", "t", "u", "r", "e", ":", " ", "C", "\n", "-", "-", "-", "\n">>
TextBar  == <<"E", "\n", "-", "-", "-", "\n", "t", "i", "t", "l", "e", ":", " ", "b", "a", "r", "\n", "c", "o", "m", "p", "o", "s", "e", "r", ":", " ", "M", "o", "z", "a", "r", "t", "\n", "-", "-", "-", "\n">>
TextJazz == <<"A", "\n", "-", "-", "-", "\n", "t", "i", "t", "l", "e", ":", " ", "B", "a", "c", "h", " ", "a", "i", "r", "\n", "c", "o", "m", "p", "o", "s", "e", "r", ":", " ", "\"", "\"", "\n", "t", "e", "m", "p", "o", ":", " ", "1", "2", "0", "\n", "-", "-", "-", "\n">>
TextCap  == <<"B", "\n", "-", "-", "-", "\n", "c", "o", "m", "p", "o", "s", "e", "r", ":", " ", "M", "o", "z", "a", "r", "t", "\n", "t", "i", "m", "e", "-", "s", "i", "g", "n", "a", "t", "u", "r", "e", ":", " ", "4", "/", "4", "\n", "-", "-", "-", "\n">>

QueryTrees ==
    { << Dir(<<"c", "l", "a", "s", "s", "i", "c", "a", "l">>, << File(<<"a", "i", "r", ".", "g", "e", "n">>, TextAir),
                              Dir(<<"S", "u", "b">>, <<File(<<"b", ".", "g", "e", "n">>, TextBar)>>) >>),
         File(<<"r", "o", "o", "t", ".", "g", "e", "n">>, TextY),
         Dir(<<"j", "a", "z", "z">>, <<File(<<"x", ".", "g", "e", "n">>, TextJazz), File(<<"r", "e", "a", "d", "m", "e", ".", "t", "x", "t">>, <<"n", "o">>)>>),
         Dir(<<"C", "l", "a", "s", "s", "i", "c", "a", "l">>, <<File(<<"c", ".", "g", "e", "n">>, TextCap)>>) >>,
      << Dir(<<"d">>, <<File(<<"x", ".", "g", "e", "n">>, TextX)>>), File(<<"y", ".", "g", "e", "n">>, TextY) >>,
      <<>> }

Filters ==
    [ title         : {Undefined, Some(<<>>), Some(<<"A", "I", "R">>)},
      composer      : {Undefined, Some(<<>>), Some(<<"b", "a", "c", "h">>)},
      category      : {Undefined, Some(<<>>), Some(<<"C", "L", "A", "S", "S", "I", "C", "A", "L">>), Some(<<"c", "l", "a", "s", "s", "i", "c", "a", "l", "/", "s", "u", "b">>)},
      timeSignature : {Undefined, Some(<<>>), Some(<<"4", "/", "4">>)},
      tempo         : {Undefined, Some(<<"1", "2", "0">>)},
      keySignature  : {Undefined, Some(<<"c">>), Some(<<"C">>)} ]

FilterArgs == {<<>>} \cup {<<f>> : f \in Filters}

PathArgs == {<<"c", "l", "a", "s", "s", "i", "c", "a", "l", "/", "a", "i", "r", ".", "g", "e", "n">>, <<"c", "l", "a", "s", "s", "i", "c", "a", "l", "/", "S", "u", "b", "/", "b", ".", "g", "e", "n">>, <<"r", "o", "o", "t", ".", "g", "e", "n">>, <<"a", "i", "r", ".", "g", "e", "n">>}

SearchArgs == {<<>>, <<"A", "I", "R">>, <<"b", "a", "c", "h">>, <<"m", "o", "z">>, <<"x">>}

-----------------------------------------------------------------------------
(* SpecQuery: one caller; each exported function runs from its call to its     *)
(* return, the scan included when the cache is not yet loaded.                 *)

\* await loadAllScores() when no read fails: the scores, and the cache after it.
ScoresNow == IF IsNull(scoresCache) THEN scanDirectory(tree, <<>>) ELSE scoresCache[1]

Answer(o, arg, scores, value) ==
    /\ stage = "input"
    /\ scoresCache' = Loaded(scores)
    /\ scansStarted' = IF IsNull(scoresCache) THEN scansStarted + 1 ELSE scansStarted
    /\ query' = [op |-> o, arg |-> arg]
    /\ answer' = [status |-> "fulfilled", value |-> value]
    /\ UNCHANGED <<tree, pc, op, pos, acc, ret, server>>
    /\ UNCHANGED <<content, parsed, body, meta>>

\* index.ts: the load before any query
LoadAllScores == \E scores \in {ScoresNow} :
    /\ IsNull(scoresCache)
    /\ Answer("loadAllScores", <<>>, scores, scores)
    /\ stage' = "input"

FilterScores == \E scores \in {ScoresNow} : \E f \in FilterArgs :
    Answer("filterScores", f, scores, filterScores(scores, f)) /\ stage' = "done"

GetScoreByPath == \E scores \in {ScoresNow} : \E p \in PathArgs :
    Answer("getScoreByPath", p, scores, getScoreByPath(scores, p)) /\ stage' = "done"

GetAllCategories == \E scores \in {ScoresNow} :
    Answer("getAllCategories", <<>>, scores, getAllCategories(scores)) /\ stage' = "done"

GetAllComposers == \E scores \in {ScoresNow} :
    Answer("getAllComposers", <<>>, scores, getAllComposers(scores)) /\ stage' = "done"

SearchByTitle == \E scores \in {ScoresNow} : \E q \in SearchArgs :
    Answer("searchByTitle", q, scores, searchByTitle(scores, q)) /\ stage' = "done"

SearchByComposer == \E scores \in {ScoresNow} : \E q \in SearchArgs :
    Answer("searchByComposer", q, scores, searchByComposer(scores, q)) /\ stage' = "done"

\* A readdir or readFile of the scan fails: the function rejects, the cache is
\* left not yet loaded.
QueryRejected == \E o \in Ops :
    /\ stage = "input"
    /\ IsNull(scoresCache)
    /\ scansStarted' = scansStarted + 1
    /\ query' = [op |-> o, arg |-> <<>>]
    /\ answer' = [status |-> "rejected", value |-> <<>>]
    /\ stage' = "done"
    /\ UNCHANGED <<tree, scoresCache, pc, op, pos, acc, ret, server>>
    /\ UNCHANGED <<content, parsed, body, meta>>

InitQuery ==
    /\ tree \in QueryTrees
    /\ scoresCache = Null
    /\ pc = <<>> /\ op = <<>> /\ pos = <<>> /\ acc = <<>> /\ ret = <<>>
    /\ scansStarted = 0 /\ server = "module"
    /\ content = <<>> /\ parsed = NoResult /\ body = <<>> /\ meta = <<>>
    /\ stage = "input"
    /\ query = [op |-> "none", arg |-> <<>>]
    /\ answer = [status |-> "pending", value |-> <<>>]

NextQuery ==
    \/ LoadAllScores
    \/ FilterScores
    \/ GetScoreByPath
    \/ GetAllCategories
    \/ GetAllComposers
    \/ SearchByTitle
    \/ SearchByComposer
    \/ QueryRejected

SpecQuery == InitQuery /\ [][NextQuery]_vars

-----------------------------------------------------------------------------
(* index.ts and resolvers.ts: SpecServer *)

\* The resolvers' entry points into score-loader.ts.
ResolverOps == Ops \ {"loadAllScores"}

\* await loadAllScores() fulfilled: createYoga, Bun.serve.
Serve ==
    /\ server = "loading"
    /\ pc[Main] = "returned"
    /\ ret[Main].status = "fulfilled"
    /\ server' = "serving"
    /\ UNCHANGED <<tree, scoresCache, pc, op, pos, acc, ret, scansStarted>>
    /\ UNCHANGED parserVars /\ UNCHANGED queryVars

\* await loadAllScores() rejected: the module's evaluation throws and the
\* process ends without reaching Bun.serve.
Exit ==
    /\ server = "loading"
    /\ pc[Main] = "returned"
    /\ ret[Main].status = "rejected"
    /\ server' = "crashed"
    /\ UNCHANGED <<tree, scoresCache, pc, op, pos, acc, ret, scansStarted>>
    /\ UNCHANGED parserVars /\ UNCHANGED queryVars

InitServer == InitLoader /\ server = "starting"

NextServer ==
    \/ Call(Main, "loadAllScores")
    \/ Serve
    \/ Exit
    \/ \E c \in Requests : \E o \in ResolverOps : Call(c, o)
    \/ \E c \in Invocations : ReadOk(c)
    \/ \E c \in Invocations : ReadFail(c)
    \/ \E c \in Invocations : Publish(c)

SpecServer == InitServer /\ [][NextServer]_vars

-----------------------------------------------------------------------------
(* Claims about the loader *)

\* The invocations whose scan of the document root is under way.
Scanning == {c \in Invocations : pc[c] \in {"scanning", "resolved"}}

\* C1: the operations started while the cache is not yet loaded, interleaved as
\* they may be, start at most one scan of the document root between them.
C1_AtMostOneScan == Cardinality(Scanning) <= 1

\* The catalog of the directory as it is.
FullCatalog == scanDirectory(tree, <<>>)

\* Every list handed out, through the cache or as a result, is the full catalog.
OnlyFullCatalogs ==
    /\ ~IsNull(scoresCache) => scoresCache[1] = FullCatalog
    /\ \A c \in Invocations : ret[c].status = "fulfilled" => ret[c].scores = FullCatalog

StartsRead(c) == pc'[c] = "scanning" /\ pos'[c] # pos[c]

\* C3: once the cache is populated it holds the same list from then on, and no
\* operation, a load already in flight included, starts a readdir or readFile or
\* assigns the cache again.
C3_PopulatedCacheIsFinal ==
    [][ ~IsNull(scoresCache) =>
            /\ scoresCache' = scoresCache
            /\ \A c \in Invocations : ~StartsRead(c)
            /\ \A c \in Invocations : ~(pc[c] = "resolved" /\ pc'[c] = "returned") ]_vars

\* C10: index.ts awaits the startup load before it serves: a resolver only ever
\* runs with the cache populated and is answered from it, the only scan is the
\* startup's, and after a failed startup load nothing is served.
C10_ServesOnlyAfterStartupLoad ==
    /\ \A c \in Requests :
           pc[c] # "idle" =>
               /\ ~IsNull(scoresCache)
               /\ pc[c] = "returned"
               /\ ret[c] = Fulfilled(scoresCache[1])
    /\ scansStarted <= 1
    /\ server = "serving" => ret[Main].status = "fulfilled" /\ ~IsNull(scoresCache)
    /\ ret[Main].status = "rejected" =>
           /\ server \in {"loading", "crashed"}
           /\ \A c \in Requests : pc[c] = "idle"

C10_Witness ==
    /\ server = "serving"
    /\ Len(tree) > 0
    /\ \A c \in Requests : pc[c] = "returned" /\ ret[c].scores = FullCatalog
    /\ \E c \in Requests : op[c] = "getAllCategories"

-----------------------------------------------------------------------------
(* Claims about the queries *)

SameLetter(a, b) == LowerChar(a) = LowerChar(b)

\* field contains crit, letter case ignored
ContainsIgnoringCase(field, crit) ==
    \E i \in 1..(Len(field) - Len(crit) + 1) :
        \A j \in 1..Len(crit) : SameLetter(field[i + j - 1], crit[j])

EqualsIgnoringCase(a, b) ==
    Len(a) = Len(b) /\ \A j \in 1..Len(a) : SameLetter(a[j], b[j])

\* Whether criterion x is set: under the reading "given, whatever its value"
\* (anyValue), or under "given and not the empty string".
IsSet(x, anyValue) == x # Undefined /\ (anyValue \/ x[1] # <<>>)

\* The record satisfies every criterion of f that is set.
Satisfies(r, f, anyValue) ==
    /\ IsSet(f.title, anyValue) =>
           r.title # Undefined /\ ContainsIgnoringCase(r.title[1], f.title[1])
    /\ IsSet(f.composer, anyValue) =>
           r.composer # Undefined /\ ContainsIgnoringCase(r.composer[1], f.composer[1])
    /\ IsSet(f.category, anyValue) =>
           \/ EqualsIgnoringCase(r.category, f.category[1])
           \/ EqualsIgnoringCase(r.fullCategory, f.category[1])
    /\ IsSet(f.timeSignature, anyValue) => r.timeSignature = f.timeSignature
    /\ IsSet(f.tempo, anyValue) => r.tempo = f.tempo
    /\ IsSet(f.keySignature, anyValue) => r.keySignature = f.keySignature

\* The answer is the cached records that satisfy f, each once, in cache order.
ExactlyTheSatisfying(anyValue) ==
    LET cached == scoresCache[1]
        keep   == {i \in 1..Len(cached) :
                       query.arg = <<>> \/ Satisfies(cached[i], query.arg[1], anyValue)}
    IN  /\ Len(answer.value) = Cardinality(keep)
        /\ \A k \in 1..Len(answer.value) :
               \E i \in keep :
                   /\ answer.value[k] = cached[i]
                   /\ Cardinality({j \in keep : j < i}) = k - 1
        /\ \A k, l \in 1..Len(answer.value) : k # l => answer.value[k] # answer.value[l]

Filtered == stage = "done" /\ query.op = "filterScores" /\ answer.status = "fulfilled"

\* C7 as stated: Filter returns, in cache order and without duplicates, exactly
\* the cached records that satisfy every criterion given, whatever its value
\* (all of them when no criteria are given).
C7_FilterAsStated == Filtered => ExactlyTheSatisfying(TRUE)

\* C7 amended: the same with a criterion counting as set only when it is given
\* and is not the empty string; an empty-string criterion imposes no constraint.
C7_Filter == Filtered => ExactlyTheSatisfying(FALSE)

C7_Witness ==
    /\ Filtered
    /\ query.arg # <<>>
    /\ query.arg[1].composer = Some(<<"b", "a", "c", "h">>)
    /\ query.arg[1].category = Some(<<"C", "L", "A", "S", "S", "I", "C", "A", "L">>)
    /\ query.arg[1].title = Some(<<>>)
    /\ Len(answer.value) = 1
    /\ Len(scoresCache[1]) = 5

StrictlyIncreasing(a) == \A i \in 1..(Len(a) - 1) : StrLess(a[i], a[i + 1])

Elements(a) == {a[i] : i \in 1..Len(a)}

Listed(o) == stage = "done" /\ query.op = o /\ answer.status = "fulfilled"

ComposersAsStated ==
    Listed("getAllComposers") =>
        /\ StrictlyIncreasing(answer.value)
        /\ Elements(answer.value) =
               {r.composer[1] : r \in {x \in Elements(scoresCache[1]) :
                                           x.composer # Undefined /\ x.composer[1] # <<>>}}

\* C8 as stated: categories() is strictly increasing and holds exactly the
\* category values and the fullCategory values that differ from their record's
\* category; composers() is strictly increasing and holds exactly the non-empty
\* composer values.
C8_ListsAsStated ==
    /\ Listed("getAllCategories") =>
           /\ StrictlyIncreasing(answer.value)
           /\ Elements(answer.value) =
                  {r.category : r \in Elements(scoresCache[1])}
                  \cup {r.fullCategory : r \in {x \in Elements(scoresCache[1]) :
                                                    x.fullCategory # x.category}}
    /\ ComposersAsStated

\* C8 amended: the fullCategory values listed are those that differ from their
\* record's category and are not the empty string.
C8_Lists ==
    /\ Listed("getAllCategories") =>
           /\ StrictlyIncreasing(answer.value)
           /\ Elements(answer.value) =
                  {r.category : r \in Elements(scoresCache[1])}
                  \cup {r.fullCategory : r \in {x \in Elements(scoresCache[1]) :
                                                    /\ x.fullCategory # x.category
                                                    /\ x.fullCategory # <<>>}}
    /\ ComposersAsStated

C8_Witness ==
    /\ Listed("getAllCategories")
    /\ Len(answer.value) = 5
    /\ answer.value[1] = <<"C", "l", "a", "s", "s", "i", "c", "a", "l">>
    /\ \E r \in Elements(scoresCache[1]) : r.fullCategory = <<>>

\* The .gen files of the directory, each as its segments from the document root,
\* in scan order.
RECURSIVE GenFiles(_, _)
GenFiles(entries, above) ==
    IF Len(entries) = 0 THEN <<>>
    ELSE LET e    == entries[1]
             segs == Append(above, e.name)
             here == IF e.isDirectory THEN GenFiles(e.entries, segs)
                     ELSE IF Len(e.name) >= 4
                             /\ SubSeq(e.name, Len(e.name) - 3, Len(e.name))
                                    = <<".", "g", "e", "n">>
                          THEN <<segs>>
                          ELSE <<>>
         IN  here \o GenFiles(Tail(entries), above)

SlashJoined(segs) == join(segs, <<"/">>)

AllButLast(segs) == SubSeq(segs, 1, Len(segs) - 1)

\* The records of the cache are those of the .gen files, one each, in order, with
\* path, filename, category and fullCategory as derived from the segments.
RecordsFollowSegments ==
    LET files == GenFiles(tree, <<>>)
        recs  == scoresCache[1]
    IN  /\ Len(recs) = Len(files)
        /\ \A i \in 1..Len(files) :
               /\ recs[i].path = SlashJoined(files[i])
               /\ recs[i].filename = files[i][Len(files[i])]
               /\ recs[i].category = files[i][1]
               /\ recs[i].fullCategory = SlashJoined(AllButLast(files[i]))

\* C9 as stated: path, filename, category and fullCategory follow the segments,
\* and fullCategory equals category for a file directly in the document root as
\* for a file directly in a first-level directory.
C9_RecordFieldsAsStated ==
    ~IsNull(scoresCache) =>
        /\ RecordsFollowSegments
        /\ \A i \in 1..Len(scoresCache[1]) :
               Len(GenFiles(tree, <<>>)[i]) <= 2 =>
                   scoresCache[1][i].fullCategory = scoresCache[1][i].category

\* C9 amended: fullCategory equals category for a file directly in a first-level
\* directory; for a file directly in the document root category is the filename
\* and fullCategory is the empty string.
C9_RecordFields ==
    ~IsNull(scoresCache) =>
        /\ RecordsFollowSegments
        /\ \A i \in 1..Len(scoresCache[1]) :
               /\ Len(GenFiles(tree, <<>>)[i]) = 2 =>
                      scoresCache[1][i].fullCategory = scoresCache[1][i].category
               /\ Len(GenFiles(tree, <<>>)[i]) = 1 =>
                      /\ scoresCache[1][i].fullCategory = <<>>
                      /\ scoresCache[1][i].category = scoresCache[1][i].filename

C9_Witness ==
    /\ ~IsNull(scoresCache)
    /\ \E i, j, k \in 1..Len(scoresCache[1]) :
           /\ Len(GenFiles(tree, <<>>)[i]) = 1
           /\ Len(GenFiles(tree, <<>>)[j]) = 2
           /\ Len(GenFiles(tree, <<>>)[k]) = 3
           /\ scoresCache[1][k].fullCategory
                  = <<"c", "l", "a", "s", "s", "i", "c", "a", "l", "/", "S", "u", "b">>

=============================================================================
